---- MODULE Spec2Model ----
(***************************************************************************)
(* The todo-list engine of git-revise (gitrevise/todo.py): the plan built  *)
(* from a commit range, the validation of the edited plan against the      *)
(* original one, the autosquash regrouping and the replay of the plan.     *)
(*                                                                         *)
(* Values.  A byte string is a sequence of symbols; the symbols are the    *)
(* line feed, the space, the two autosquash markers and a few words.  An   *)
(* optional value is a sequence of length 0 (None) or 1.  A commit is the  *)
(* record of its content (tree, parents, message, author): the identity of *)
(* a commit is a hash of that content, so two commits are the same commit  *)
(* exactly when the records are equal.  A tree maps every path to the      *)
(* content of the file there, 0 when the path is absent.                   *)
(***************************************************************************)
EXTENDS Integers, Sequences, FiniteSets, TLC

VARIABLES
    pc,                   \* position of the program in the cycle
    base,                 \* Optional commit the range sits on (None: --root)
    commits,              \* the commit range handed to build_todos, oldest first
    index,                \* Optional commit holding the staged changes
    refs,                 \* ref namespace: ref name -> Optional commit
    refs_before,          \* the ref namespace as it was when the cycle started
    worktrees,            \* branch checked out in each worktree (1 is the main one)
    reauthor,             \* the reauthor flag of apply_todos
    todos_original,       \* the plan build_todos returned
    todos,                \* the plan handed to the editor (autosquashed or not)
    response,             \* the editor's buffer: a sequence of parsed lines
    edits,                \* number of edit operations the user has made
    todos_edited,         \* the plan edit_todos returned
    current,              \* apply_todos: Optional tip commit
    applied_old_commits,  \* apply_todos: commits of the original steps seen
    applied_new_commits,  \* apply_todos: commits of the edited steps seen
    pos,                  \* apply_todos: number of pairs of zip() consumed
    pinned,               \* apply_todos: what rebase was given at each step
    picks,                \* autosquash_todos: the groups collected so far
    commit_names,         \* the names the store resolves, other than summaries
    head_on_top,          \* sequence.presentation-order-head-on-top
    msgedit,              \* edit_todos: the message-editing mode is chosen
    text,                 \* the bytes the editor returns (response)
    parsed,               \* Optional result of parse_action or parse_step
    err                   \* the error that ended the cycle, NoError if none

vars == <<pc, base, commits, index, refs, refs_before, worktrees, reauthor,
          todos_original, todos, response, edits, todos_edited, current,
          applied_old_commits, applied_new_commits, pos, pinned, picks,
          commit_names, head_on_top, msgedit, text, parsed, err>>

(***************************************************************************)
(* Bounds of the model.                                                    *)
(***************************************************************************)
MaxCommits == 3    \* longest commit range
MaxEdits == 2      \* most edit operations the user makes in the editor

Paths == {"file1", "file2"}
Contents == {0, 1, 2}
Trees == [Paths -> Contents]
EmptyTree == [p \in Paths |-> 0]

None == <<>>
Some(x) == <<x>>

Min(S) == CHOOSE x \in S : \A y \in S : x <= y
Max(S) == CHOOSE x \in S : \A y \in S : x >= y
Range(s) == {s[k] : k \in 1..Len(s)}

RECURSIVE Concat(_)
Concat(ss) == IF ss = <<>> THEN <<>> ELSE Head(ss) \o Concat(Tail(ss))

(***************************************************************************)
(* Byte strings.                                                           *)
(***************************************************************************)
LF == "\n"
SP == " "
FIXUP_MARK == "fixup!"
SQUASH_MARK == "squash!"

IsPrefix(p, s) == Len(p) <= Len(s) /\ SubSeq(s, 1, Len(p)) = p

\* bytes.isspace of one byte.
IsSpace(b) == b \in {SP, LF}

(***************************************************************************)
(* Commits of the object store.                                            *)
(***************************************************************************)
DefaultAuthor == "default author"
OtherAuthor == "original author"

\* Commit.update: a commit that differs from c in the fields given; c itself
\* when nothing differs (the store hands out one identity per content).
update(c, tree, parents, message, author) ==
    [tree |-> tree, parents |-> parents, message |-> message, author |-> author]

TreeOfOptional(c) == IF c = None THEN EmptyTree ELSE c[1].tree

\* Three-way merge of one path: the set of clean results, empty on a conflict.
merge_path(ours, mergebase, theirs) ==
    IF mergebase = ours THEN {theirs}
    ELSE IF mergebase = theirs THEN {ours}
    ELSE IF ours = theirs THEN {ours}
    ELSE {}

Conflicts(ours, mergebase, theirs) ==
    {p \in Paths : merge_path(ours[p], mergebase[p], theirs[p]) = {}}

\* The trees a three-way merge may end with: the clean merge of the paths that
\* merge cleanly, and on every conflicting path whatever the user resolves it to.
merge_trees(ours, mergebase, theirs) ==
    {t \in Trees :
        \A p \in Paths :
            LET clean == merge_path(ours[p], mergebase[p], theirs[p])
            IN  clean # {} => t[p] \in clean}

\* Commit.rebase(parent, tree_to_keep): the commits the rebase may end with.
\* keep is the Optional tree the result is pinned to.
rebase(commit, parent, keep) ==
    LET trees == IF keep # None THEN {keep[1]}
                 ELSE merge_trees(TreeOfOptional(parent),
                                  TreeOfOptional(commit.parents), commit.tree)
    IN  {update(commit, t, parent, commit.message, commit.author) : t \in trees}

\* The rebase needs the user to resolve a conflict, which the user may refuse.
rebase_may_fail(commit, parent, keep) ==
    /\ keep = None
    /\ Conflicts(TreeOfOptional(parent), TreeOfOptional(commit.parents),
                 commit.tree) # {}

(***************************************************************************)
(* Actions.                                                                *)
(***************************************************************************)
aPICK == "pick"
aFIXUP == "fixup"
aSQUASH == "squash"
aREWORD == "reword"
aCUT == "cut"
aINDEX == "index"
CommitAction == <<aPICK, aFIXUP, aSQUASH, aREWORD, aCUT, aINDEX>>

aCOMMENT == "#"
aUPDATE_REF == "update-ref"
CommitlessAction == <<aCOMMENT, aUPDATE_REF>>

(***************************************************************************)
(* Steps.                                                                  *)
(***************************************************************************)
CommitStep(action, commit) ==
    [action |-> action, commit |-> commit, message |-> commit.message,
     extrasteps |-> <<>>]

CommitlessStep(action, operand) == [action |-> action, operand |-> operand]

significant_extrasteps(step) ==
    SelectSeq(step.extrasteps, LAMBDA x : x.action # aCOMMENT)

(***************************************************************************)
(* build_todos.  show-ref lists the refs in the order of their names;      *)
(* worktree list gives for every worktree the branch checked out there.    *)
(***************************************************************************)
HEADS == "refs/heads/"
TAGS == "refs/tags/"
RefName(prefix, name) == [prefix |-> prefix, name |-> name]
RefMain == RefName(HEADS, "main")
RefTopic == RefName(HEADS, "topic")
RefTag == RefName(TAGS, "v1")
RefOrder == <<RefMain, RefTopic, RefTag>>
RefNames == Range(RefOrder)

commit_refs(rf, commit) == SelectSeq(RefOrder, LAMBDA r : rf[r] = Some(commit))

\* Variant of outchecked that leaves out the main worktree, the first of the
\* list.
outchecked_elsewhere(wt) ==
    {wt[w][1] : w \in {v \in DOMAIN wt : v # 1 /\ wt[v] # None}}

outchecked(wt) == {wt[w][1] : w \in {v \in DOMAIN wt : wt[v] # None}}

extrastep_for(wt, ref) ==
    IF ref.prefix = HEADS /\ ref \notin outchecked(wt)
    THEN CommitlessStep(aUPDATE_REF, ref)
    ELSE CommitlessStep(aCOMMENT, ref)

build_todos(rf, wt, cs, idx) ==
    LET steps == [k \in 1..Len(cs) |-> CommitStep(aPICK, cs[k])]
                 \o (IF idx # None THEN <<CommitStep(aINDEX, idx[1])>> ELSE <<>>)
    IN  [k \in 1..Len(steps) |->
            LET found == commit_refs(rf, steps[k].commit)
            IN  [steps[k] EXCEPT !.extrasteps =
                    [j \in 1..Len(found) |-> extrastep_for(wt, found[j])]]]

(***************************************************************************)
(* validate_todos.  The result is the message of the error raised, NoError *)
(* when the edited plan is accepted.                                       *)
(***************************************************************************)
NoError == "none"
ErrDuplicate == "Unexpected duplicate commit found in todos"
ErrForeign == "Unexpected commits not referenced in original TODO list"
ErrNonempty == "Can't drop nonempty commit"
ErrIndexOrder == "'index' actions follow all non-index todo items"

CommitsOf(steps) == {steps[k].commit : k \in 1..Len(steps)}

dropped_list(old, new) ==
    LET kept == SelectSeq(old, LAMBDA o : o.commit \notin CommitsOf(new))
    IN  [k \in 1..Len(kept) |-> kept[k].commit]

\* Variant of the while loop that takes only empty commits off the front.
RECURSIVE walk_dropped_empty_only(_)
walk_dropped_empty_only(dropped) ==
    IF dropped # <<>> /\ Len(dropped[1].parents) = 1
          /\ dropped[1].tree = dropped[1].parents[1].tree
    THEN walk_dropped_empty_only(Tail(dropped))
    ELSE dropped

\* The while loop of validate_todos: what is left of the dropped commits
\* when no further bubble can be taken off the front.
RECURSIVE walk_dropped(_)
walk_dropped(dropped) ==
    IF dropped # <<>> /\ Len(dropped[1].parents) = 1
    THEN LET parent_tree == dropped[1].parents[1].tree
             found == {k \in 1..Len(dropped) : dropped[k].tree = parent_tree}
         IN  IF found # {}
             THEN walk_dropped(SubSeq(dropped, Min(found) + 1, Len(dropped)))
             ELSE dropped
    ELSE dropped

\* Variant of the index check that looks at the last step only.
index_order_ok_last_only(new) ==
    (\E k \in 1..Len(new) : new[k].action = aINDEX)
        => new[Len(new)].action = aINDEX

index_order_ok(new) ==
    \A j, k \in 1..Len(new) :
        (j < k /\ new[j].action = aINDEX) => new[k].action = aINDEX

\* Variant of validate_todos without the check for foreign commits.
validate_todos_no_foreign_check(old, new) ==
    IF Cardinality(CommitsOf(new)) # Len(new) THEN ErrDuplicate
    ELSE IF walk_dropped(dropped_list(old, new)) # <<>> THEN ErrNonempty
    ELSE IF ~index_order_ok(new) THEN ErrIndexOrder
    ELSE NoError

\* Variant of validate_todos without the check for duplicate commits.
validate_todos_no_duplicate_check(old, new) ==
    IF CommitsOf(new) \ CommitsOf(old) # {} THEN ErrForeign
    ELSE IF walk_dropped(dropped_list(old, new)) # <<>> THEN ErrNonempty
    ELSE IF ~index_order_ok(new) THEN ErrIndexOrder
    ELSE NoError

validate_todos(old, new) ==
    IF Cardinality(CommitsOf(new)) # Len(new) THEN ErrDuplicate
    ELSE IF CommitsOf(new) \ CommitsOf(old) # {} THEN ErrForeign
    ELSE IF walk_dropped(dropped_list(old, new)) # <<>> THEN ErrNonempty
    ELSE IF ~index_order_ok(new) THEN ErrIndexOrder
    ELSE NoError

(***************************************************************************)
(* add_autosquash_step and autosquash_todos.  picks is the list of groups  *)
(* collected so far; names pairs the names the store resolves with commits. *)
(***************************************************************************)
\* Commit.summary: the first line of the message.
RECURSIVE first_line(_)
first_line(message) ==
    IF message = <<>> \/ Head(message) = LF THEN <<>>
    ELSE <<Head(message)>> \o first_line(Tail(message))

summary(commit) == first_line(commit.message)

\* Repository.get_commit: the commit a name resolves to, None when the
\* lookup fails.
get_commit(names, ref) ==
    LET found == {p \in names : p[1] = ref}
    IN  IF found = {} THEN None ELSE Some((CHOOSE p \in found : TRUE)[2])

RECURSIVE lstrip(_)
lstrip(s) == IF s # <<>> /\ IsSpace(Head(s)) THEN lstrip(Tail(s)) ELSE s

\* needle.split(maxsplit=1)[1] of a needle that starts with a marker and a
\* space: what follows the blanks after the marker.
split_rest(s) == lstrip(Tail(s))

RECURSIVE strip_markers(_)
strip_markers(s) ==
    IF IsPrefix(<<FIXUP_MARK, SP>>, s) \/ IsPrefix(<<SQUASH_MARK, SP>>, s)
    THEN strip_markers(split_rest(s))
    ELSE s

\* Variant of add_autosquash_step that puts the folded step right after the
\* lead of the group.
add_autosquash_step_after_lead(step, groups, names) ==
    LET needle == strip_markers(summary(step.commit))
        new_step == CommitStep(IF Head(summary(step.commit)) = FIXUP_MARK
                               THEN aFIXUP ELSE aSQUASH, step.commit)
        by_summary == {k \in 1..Len(groups) :
                          IsPrefix(needle, summary(groups[k][1].commit))}
        target == get_commit(names, needle)
        by_target == {k \in 1..Len(groups) :
                         target # None /\ target[1] \in CommitsOf(groups[k])}
    IN  IF needle # summary(step.commit) /\ by_summary # {}
        THEN [groups EXCEPT ![Min(by_summary)] =
                 <<Head(@), new_step>> \o Tail(@)]
        ELSE IF needle # summary(step.commit) /\ by_target # {}
        THEN [groups EXCEPT ![Min(by_target)] =
                 <<Head(@), new_step>> \o Tail(@)]
        ELSE Append(groups, <<step>>)

add_autosquash_step(step, groups, names) ==
    LET needle == strip_markers(summary(step.commit))
        new_step == CommitStep(IF Head(summary(step.commit)) = FIXUP_MARK
                               THEN aFIXUP ELSE aSQUASH, step.commit)
        by_summary == {k \in 1..Len(groups) :
                          IsPrefix(needle, summary(groups[k][1].commit))}
        target == get_commit(names, needle)
        by_target == {k \in 1..Len(groups) :
                         target # None /\ target[1] \in CommitsOf(groups[k])}
    IN  IF needle # summary(step.commit) /\ by_summary # {}
        THEN [groups EXCEPT ![Min(by_summary)] = Append(@, new_step)]
        ELSE IF needle # summary(step.commit) /\ by_target # {}
        THEN [groups EXCEPT ![Min(by_target)] = Append(@, new_step)]
        ELSE Append(groups, <<step>>)

(***************************************************************************)
(* parse_action and parse_step.  The names of the actions are spelled byte *)
(* by byte, so that an abbreviation is a prefix of a name.                 *)
(***************************************************************************)
ActionName(a) ==
    CASE a = aPICK -> <<"p", "i", "c", "k">>
      [] a = aFIXUP -> <<"f", "i", "x", "u", "p">>
      [] a = aSQUASH -> <<"s", "q", "u", "a", "s", "h">>
      [] a = aREWORD -> <<"r", "e", "w", "o", "r", "d">>
      [] a = aCUT -> <<"c", "u", "t">>
      [] a = aINDEX -> <<"i", "n", "d", "e", "x">>
      [] a = aCOMMENT -> <<"#">>
      [] a = aUPDATE_REF -> <<"u", "p", "d", "a", "t", "e", "-", "r", "e", "f">>

\* The order in which parse_action goes through the two enumerations.
AllActions == CommitAction \o CommitlessAction

ErrUnrecognized == "Unrecognized action"
ErrFormat == "todo entry must follow format <action> <operand> <optional summary>"
ErrUnknownCommit == "unknown commit"
ErrNoNewline == "not enough values to unpack"

\* Variant of parse_action that returns the last action whose name matches.
parse_action_last_match(instr) ==
    LET hits == {k \in 1..Len(AllActions) :
                    IsPrefix(instr, ActionName(AllActions[k]))}
    IN  IF hits = {} THEN None ELSE Some(AllActions[Max(hits)])

\* parse_action: the action, None when the error is raised.
parse_action(instr) ==
    LET hits == {k \in 1..Len(AllActions) :
                    IsPrefix(instr, ActionName(AllActions[k]))}
    IN  IF hits = {} THEN None ELSE Some(AllActions[Min(hits)])

RECURSIVE rstrip(_)
rstrip(s) ==
    IF s # <<>> /\ IsSpace(s[Len(s)]) THEN rstrip(SubSeq(s, 1, Len(s) - 1))
    ELSE s

strip(s) == rstrip(lstrip(s))

\* \S+ at the start of s, and what follows it.
RECURSIVE word(_)
word(s) ==
    IF s = <<>> \/ IsSpace(Head(s)) THEN <<>>
    ELSE <<Head(s)>> \o word(Tail(s))

after_word(s) == SubSeq(s, Len(word(s)) + 1, Len(s))

\* A ref name as bytes, and back.
ref_to_bytes(ref) == <<ref.prefix, ref.name>>
ref_of_bytes(b) == IF Len(b) >= 2 THEN RefName(b[1], b[2]) ELSE RefName("", b[1])

\* Oid.short of a commit: the name under which the store knows the commit.
short(names, commit) == (CHOOSE p \in names : p[2] = commit)[1]

\* Commit.message_with_edited_summary: the message with its first line
\* replaced.
rest_of_message(message) ==
    SubSeq(message, Len(first_line(message)) + 1, Len(message))

message_with_edited_summary(commit, new_summary) ==
    new_summary \o rest_of_message(commit.message)

\* The summary group of the regex of parse_step: "$" also matches before
\* a line feed that ends the line.
summary_group(rest) ==
    LET t == lstrip(rest)
    IN  IF t # <<>> /\ t[Len(t)] = LF THEN SubSeq(t, 1, Len(t) - 1) ELSE t

\* Variant of parse_step that takes the summary for the whole message.
parse_step_summary_is_message(names, instr) ==
    LET rest1 == after_word(instr)
        operand == word(lstrip(rest1))
        rest2 == after_word(lstrip(rest1))
        matched == /\ word(instr) # <<>>
                   /\ operand # <<>>
                   /\ LF \notin Range(summary_group(rest2))
        action == parse_action(word(instr))
        commit == get_commit(names, operand)
    IN  IF ~matched THEN [err |-> ErrFormat, step |-> None]
        ELSE IF action = None THEN [err |-> ErrUnrecognized, step |-> None]
        ELSE IF action[1] \in Range(CommitlessAction)
        THEN [err |-> NoError,
              step |-> Some(CommitlessStep(action[1], ref_of_bytes(operand)))]
        ELSE IF commit = None THEN [err |-> ErrUnknownCommit, step |-> None]
        ELSE [err |-> NoError,
              step |-> Some(IF rest2 = <<>>
                            THEN CommitStep(action[1], commit[1])
                            ELSE [CommitStep(action[1], commit[1])
                                     EXCEPT !.message =
                                        summary_group(rest2) \o <<LF>>])]

\* parse_step: the error raised and the Optional step.
parse_step(names, instr) ==
    LET rest1 == after_word(instr)
        operand == word(lstrip(rest1))
        rest2 == after_word(lstrip(rest1))
        matched == /\ word(instr) # <<>>
                   /\ operand # <<>>
                   /\ LF \notin Range(summary_group(rest2))
        action == parse_action(word(instr))
        commit == get_commit(names, operand)
    IN  IF ~matched THEN [err |-> ErrFormat, step |-> None]
        ELSE IF action = None THEN [err |-> ErrUnrecognized, step |-> None]
        ELSE IF action[1] \in Range(CommitlessAction)
        THEN [err |-> NoError,
              step |-> Some(CommitlessStep(action[1], ref_of_bytes(operand)))]
        ELSE IF commit = None THEN [err |-> ErrUnknownCommit, step |-> None]
        ELSE [err |-> NoError,
              step |-> Some(IF rest2 = <<>>
                            THEN CommitStep(action[1], commit[1])
                            ELSE [CommitStep(action[1], commit[1])
                                     EXCEPT !.message =
                                        message_with_edited_summary(
                                            commit[1], summary_group(rest2))])]

(***************************************************************************)
(* edit_todos, from the lines the editor returns: a line is a CommitStep   *)
(* without extra steps or a CommitlessStep.                                *)
(***************************************************************************)
ErrOrphan == "Actions can not be applied to the base commit"
ErrEmptyFile == "empty file - aborting"

IsCommitStep(x) == "commit" \in DOMAIN x

\* The lines edit_todos_linewise writes for a plan, as parse_step reads each
\* of them back when the user leaves it alone.
serialized_todos(plan) ==
    Concat([k \in 1..Len(plan) |->
               <<CommitStep(plan[k].action, plan[k].commit)>>
               \o plan[k].extrasteps])

RECURSIVE reassociate(_, _)
reassociate(result, lines) ==
    IF lines = <<>> THEN result
    ELSE IF IsCommitStep(Head(lines))
         THEN reassociate(Append(result, Head(lines)), Tail(lines))
         ELSE reassociate(
                  [result EXCEPT ![Len(result)].extrasteps =
                      Append(result[Len(result)].extrasteps, Head(lines))],
                  Tail(lines))

\* Some commit-less line has no commit line before it.
orphan(lines) == lines # <<>> /\ ~IsCommitStep(Head(lines))

\* edit_todos after the editor has returned: the error raised, and the plan.
edit_todos(plan, lines) ==
    IF lines = <<>> THEN [err |-> ErrEmptyFile, result |-> <<>>]
    ELSE IF orphan(lines) THEN [err |-> ErrOrphan, result |-> <<>>]
    ELSE LET result == reassociate(<<>>, lines)
         IN  [err |-> validate_todos(plan, result), result |-> result]

(***************************************************************************)
(* edit_todos_msgedit, edit_todos_linewise and edit_todos, from the bytes  *)
(* written for the editor to the plan returned.                            *)
(***************************************************************************)
MARK == "++"

Reverse(s) == [k \in 1..Len(s) |-> s[Len(s) + 1 - k]]

\* CommitStep.__str__ and CommitlessStep.to_bytes.
step_str(names, step) ==
    ActionName(step.action) \o <<SP>> \o short(names, step.commit)

to_bytes(extrastep) ==
    ActionName(extrastep.action) \o <<SP>> \o ref_to_bytes(extrastep.operand)

\* serialized_todos of edit_todos_linewise and of edit_todos_msgedit.
serialized_linewise(names, plan) ==
    Concat([k \in 1..Len(plan) |->
               <<step_str(names, plan[k]) \o <<SP>> \o summary(plan[k].commit)>>
               \o [j \in 1..Len(plan[k].extrasteps) |->
                      to_bytes(plan[k].extrasteps[j])]])

serialized_msgedit(names, plan) ==
    Concat([k \in 1..Len(plan) |->
               <<step_str(names, plan[k]) \o <<LF>> \o plan[k].commit.message>>
               \o [j \in 1..Len(plan[k].extrasteps) |->
                      to_bytes(plan[k].extrasteps[j])]])

\* todos_text: the bytes handed to the editor.
todos_text(names, plan, me, hot) ==
    LET entries == IF me THEN serialized_msgedit(names, plan)
                   ELSE serialized_linewise(names, plan)
        ordered == IF hot THEN Reverse(entries) ELSE entries
    IN  Concat([k \in 1..Len(ordered) |->
                   (IF me THEN <<MARK, SP>> ELSE <<>>) \o ordered[k] \o <<LF>>])

\* bytes.splitlines and bytes.isspace.
RECURSIVE splitlines(_)
splitlines(s) ==
    IF s = <<>> THEN <<>>
    ELSE <<first_line(s)>>
         \o splitlines(SubSeq(s, Len(first_line(s)) + 2, Len(s)))

isspace(s) == s # <<>> /\ \A k \in 1..Len(s) : IsSpace(s[k])

\* The steps parsed from the lines, or the first error raised.
parse_all(names, instrs) ==
    LET results == [k \in 1..Len(instrs) |-> parse_step(names, instrs[k])]
        bad == {k \in 1..Len(instrs) : results[k].err # NoError}
    IN  IF bad # {} THEN [err |-> results[Min(bad)].err, steps |-> <<>>]
        ELSE [err |-> NoError,
              steps |-> [k \in 1..Len(instrs) |-> results[k].step[1]]]

polymorphic_linewise(names, response_bytes) ==
    LET lines == SelectSeq(splitlines(response_bytes), LAMBDA l : ~isspace(l))
    IN  parse_all(names, [k \in 1..Len(lines) |-> strip(lines[k])])

\* re.split(rb"^\+\+ ", response, flags=re.M)[1:]
delimiters(s) ==
    {i \in 1..(Len(s) - 1) :
        s[i] = MARK /\ s[i + 1] = SP /\ (i = 1 \/ s[i - 1] = LF)}

RECURSIVE sorted(_)
sorted(S) == IF S = {} THEN <<>> ELSE <<Min(S)>> \o sorted(S \ {Min(S)})

split_blocks(s) ==
    LET d == sorted(delimiters(s))
    IN  [k \in 1..Len(d) |->
            SubSeq(s, d[k] + 2,
                   IF k < Len(d) THEN d[k + 1] - 1 ELSE Len(s))]

polymorphic_msgedit(names, response_bytes) ==
    LET fulls == split_blocks(response_bytes)
        parsed_cmds == parse_all(names, [k \in 1..Len(fulls) |->
                                            strip(first_line(fulls[k]))])
        message_of(k) == SubSeq(fulls[k], Len(first_line(fulls[k])) + 2,
                                Len(fulls[k]))
    IN  IF \E k \in 1..Len(fulls) : LF \notin Range(fulls[k])
        THEN [err |-> ErrNoNewline, steps |-> <<>>]
        ELSE IF parsed_cmds.err # NoError THEN parsed_cmds
        ELSE [err |-> NoError,
              steps |-> [k \in 1..Len(fulls) |->
                  IF IsCommitStep(parsed_cmds.steps[k])
                  THEN [parsed_cmds.steps[k] EXCEPT
                           !.message = strip(message_of(k)) \o <<LF>>]
                  ELSE parsed_cmds.steps[k]]]

\* Variant of the reversal of the parsed steps: they are left in file order.
presented_order_kept(steps, hot) == steps

\* polymorphic_steps.reverse() when the flag is set.
presented_order(steps, hot) == IF hot THEN Reverse(steps) ELSE steps

\* edit_todos from the bytes the editor returns.
edit_todos_bytes(plan, names, me, hot, response_bytes) ==
    IF strip(response_bytes) = <<>> THEN [err |-> ErrEmptyFile, result |-> <<>>]
    ELSE LET poly == IF me THEN polymorphic_msgedit(names, response_bytes)
                     ELSE polymorphic_linewise(names, response_bytes)
         IN  IF poly.err # NoError THEN [err |-> poly.err, result |-> <<>>]
             ELSE IF poly.steps = <<>>
             THEN [err |-> validate_todos(plan, <<>>), result |-> <<>>]
             ELSE edit_todos(plan, presented_order(poly.steps, hot))

(***************************************************************************)
(* apply_todos: one iteration of its loop.                                 *)
(***************************************************************************)
ErrFixupFirst == "Cannot apply fixup as first commit"
ErrSquashFirst == "Cannot apply squash as first commit"
ErrNoCommits == "No commits introduced on top of root commit"
ErrConflict == "merge conflict not resolved"
ErrEditor == "editor failed"
ErrCut == "cut failed"

RewordedMessage == <<"reworded", LF>>

\* edit_commit_message: the commits the message editor may end with.
edit_commit_message(c) ==
    {update(c, c.tree, c.parents, m, c.author) : m \in {c.message, RewordedMessage}}

\* cut_commit: the second halves the interactive split may end with.  The
\* first half takes the change of some of the changed paths, not of all.
mid_trees(base_tree, final_tree) ==
    {t \in Trees : /\ \A p \in Paths : t[p] \in {base_tree[p], final_tree[p]}
                   /\ t # base_tree
                   /\ t # final_tree}

cut_commit(c) ==
    {update(c, c.tree,
            <<update(c, mid, c.parents, <<"[1]", SP>> \o c.message, c.author)>>,
            <<"[2]", SP>> \o c.message, c.author) :
        mid \in mid_trees(TreeOfOptional(c.parents), c.tree)}

RECURSIVE update_heads(_, _, _)
update_heads(rf, extrasteps, commit) ==
    IF extrasteps = <<>> THEN rf
    ELSE update_heads([rf EXCEPT ![Head(extrasteps).operand] = Some(commit)],
                      Tail(extrasteps), commit)

zip_length == Min({Len(todos_original), Len(todos_edited)})

\* Variant of the message update: the rebased commit keeps its message.
with_message_of_commit(moved, step) == moved

\* .update(message=step.message) on the rebased commit.
with_message(moved, step) ==
    update(moved, moved.tree, moved.parents, step.message, moved.author)

\* Variant of fixup that takes the message of the rebased commit.
fixup_takes_message(cur, rebased) ==
    update(cur, rebased.tree, cur.parents, rebased.message, cur.author)

\* current.update(tree=rebased.tree()) of a fixup step.
fixup(cur, rebased) ==
    update(cur, rebased.tree, cur.parents, cur.message, cur.author)

\* fused and current.update(tree=rebased.tree(), message=fused) of a squash
\* step, before the message editor runs.
fused_message(cur, rebased) == cur.message \o <<LF, LF>> \o rebased.message

squash(cur, rebased) ==
    update(cur, rebased.tree, cur.parents, fused_message(cur, rebased),
           cur.author)

\* Variant of deja vu that holds at every step.
deja_vu_always(old_set, new_set) == TRUE

deja_vu(old_set, new_set) == new_set = old_set

\* Variant of the pinned tree: the tree of the commit of the edited step.
tree_to_keep_of_step(known_state, step, dv) ==
    IF dv THEN Some(step.commit.tree) ELSE None

tree_to_keep(known_state, step, dv) ==
    IF dv THEN Some(known_state.commit.tree) ELSE None

(***************************************************************************)
(* Histories: a range of commits on a base, each commit the child of the   *)
(* one before it.                                                          *)
(***************************************************************************)
Words == <<"one", "two", "three", "four", "five">>
Subject(k) == <<Words[k], LF>>
IndexMessage == <<"<git index>", LF>>

BaseCommit ==
    [tree |-> EmptyTree, parents |-> <<>>, message |-> <<"base", LF>>,
     author |-> OtherAuthor]

\* A commit that is in no range built here.
ForeignCommit ==
    [tree |-> EmptyTree, parents |-> <<>>, message |-> <<"foreign", LF>>,
     author |-> OtherAuthor]

RECURSIVE History(_, _, _)
History(parents, trees, k) ==
    IF trees = <<>> THEN <<>>
    ELSE LET c == [tree |-> Head(trees), parents |-> parents,
                   message |-> Subject(k), author |-> OtherAuthor]
         IN  <<c>> \o History(<<c>>, Tail(trees), k + 1)

Tip(b, cs) == IF cs = <<>> THEN b ELSE Some(cs[Len(cs)])

IndexCommit(b, cs, tree) ==
    [tree |-> tree, parents |-> Tip(b, cs), message |-> IndexMessage,
     author |-> OtherAuthor]

NoRefs == [r \in RefNames |-> None]

(***************************************************************************)
(* validate_todos as a function of its two plans.                          *)
(***************************************************************************)
ValidateTrees == {t \in Trees : t["file2"] = 0}

\* The plans of length at most MaxCommits made of the given actions and commits.
CandidatePlans(actions, cs) ==
    UNION {[1..m -> {CommitStep(a, c) : a \in actions, c \in cs}] :
              m \in 0..MaxCommits}

\* Two families of inputs.  In the first the trees of the range vary and
\* every step of the edited plan is a pick; in the second the actions of the
\* edited plan vary, an index commit may be there, and every commit of the
\* range is empty (so that no drop is refused).
InitValidate ==
    /\ pc = "validate"
    /\ base \in {None, Some(BaseCommit)}
    /\ \E n \in 1..MaxCommits :
          \/ /\ \E trees \in [1..n -> ValidateTrees] :
                    commits = History(base, trees, 1)
             /\ index = None
             /\ todos_edited \in
                    CandidatePlans({aPICK}, Range(commits) \cup {ForeignCommit})
          \/ /\ commits = History(base, [k \in 1..n |-> EmptyTree], 1)
             /\ index \in {None, Some(IndexCommit(base, commits, EmptyTree)),
                            Some(IndexCommit(base, commits,
                                             [EmptyTree EXCEPT !["file1"] = 1]))}
             /\ todos_edited \in
                    CandidatePlans({aPICK, aFIXUP, aINDEX},
                                   Range(commits) \cup Range(index))
    /\ refs = NoRefs
    /\ refs_before = refs
    /\ worktrees = <<None>>
    /\ reauthor = FALSE
    /\ todos_original = build_todos(refs, worktrees, commits, index)
    /\ todos = todos_original
    /\ response = <<>>
    /\ edits = 0
    /\ current = None
    /\ applied_old_commits = {}
    /\ applied_new_commits = {}
    /\ pos = 0
    /\ pinned = <<>>
    /\ picks = <<>>
    /\ commit_names = {}
    /\ head_on_top = FALSE
    /\ msgedit = FALSE
    /\ text = <<>>
    /\ parsed = None
    /\ err = NoError

ValidateTodos ==
    /\ pc = "validate"
    /\ err' = validate_todos(todos, todos_edited)
    /\ pc' = "validated"
    /\ UNCHANGED <<picks, commit_names, head_on_top, msgedit, text, parsed,
                   base, commits, index, refs, refs_before, worktrees, reauthor,
                   todos_original, todos, response, edits, todos_edited,
                   current, applied_old_commits, applied_new_commits, pos,
                   pinned>>

NextValidate == ValidateTodos

SpecValidate == InitValidate /\ [][NextValidate]_vars

(***************************************************************************)
(* autosquash_todos on the plan build_todos returns for a range whose      *)
(* commit messages vary.                                                   *)
(***************************************************************************)
PlainSummaries == {<<"x">>, <<"y">>, <<"x", "y">>}
Needles == {<<"x">>, <<"y">>, <<"z">>}
MarkedSummaries ==
    {<<m, SP>> \o n : m \in {FIXUP_MARK, SQUASH_MARK}, n \in Needles}
        \cup {<<FIXUP_MARK, SP, SQUASH_MARK, SP, "x">>}
AutosquashSummaries == PlainSummaries \cup MarkedSummaries

RECURSIVE HistoryOf(_, _)
HistoryOf(parents, summaries) ==
    IF summaries = <<>> THEN <<>>
    ELSE LET c == [tree |-> EmptyTree, parents |-> parents,
                   message |-> Head(summaries) \o <<LF>>,
                   author |-> OtherAuthor]
         IN  <<c>> \o HistoryOf(<<c>>, Tail(summaries))

InitAutosquash ==
    /\ pc = "autosquash"
    /\ base = Some(BaseCommit)
    /\ \E n \in 1..MaxCommits :
          \E summaries \in [1..n -> AutosquashSummaries] :
              commits = HistoryOf(base, summaries)
    /\ index = None
    /\ refs = NoRefs
    /\ refs_before = refs
    /\ worktrees = <<None>>
    /\ reauthor = FALSE
    /\ todos_original = build_todos(refs, worktrees, commits, index)
    /\ todos = <<>>
    /\ response = <<>>
    /\ edits = 0
    /\ todos_edited = <<>>
    /\ current = None
    /\ applied_old_commits = {}
    /\ applied_new_commits = {}
    /\ pos = 0
    /\ pinned = <<>>
    /\ picks = <<>>
    /\ commit_names \in {{}} \cup {{<<<<"z">>, c>>} : c \in Range(commits)}
    /\ head_on_top = FALSE
    /\ msgedit = FALSE
    /\ text = <<>>
    /\ parsed = None
    /\ err = NoError

\* One iteration of the loop of autosquash_todos.
AddAutosquashStep ==
    /\ pc = "autosquash"
    /\ pos < Len(todos_original)
    /\ picks' = add_autosquash_step(todos_original[pos + 1], picks, commit_names)
    /\ pos' = pos + 1
    /\ UNCHANGED <<commit_names, head_on_top, msgedit, text, parsed,
                   pc, base, commits, index, refs, refs_before,
                   worktrees, reauthor, todos_original, todos, response, edits,
                   todos_edited, current, applied_old_commits,
                   applied_new_commits, pinned, err>>

\* The return of autosquash_todos: the groups, one after the other.
AutosquashReturn ==
    /\ pc = "autosquash"
    /\ pos = Len(todos_original)
    /\ todos' = Concat(picks)
    /\ pc' = "autosquashed"
    /\ UNCHANGED <<picks, commit_names, head_on_top, msgedit, text, parsed,
                   base, commits, index, refs,
                   refs_before, worktrees, reauthor, todos_original, response,
                   edits, todos_edited, current, applied_old_commits,
                   applied_new_commits, pos, pinned, err>>

NextAutosquash == AddAutosquashStep \/ AutosquashReturn

SpecAutosquash == InitAutosquash /\ [][NextAutosquash]_vars

\* autosquash_todos on a plan with extra steps: topic, checked out nowhere,
\* points at some commit of the range, main is checked out at the tip.
InitAutosquashRefs ==
    /\ pc = "autosquash"
    /\ base = Some(BaseCommit)
    /\ \E n \in 1..MaxCommits :
          \E summaries \in [1..n -> AutosquashSummaries] :
              commits = HistoryOf(base, summaries)
    /\ index = None
    /\ \E topic \in Range(commits) :
          refs = [NoRefs EXCEPT ![RefMain] = Tip(base, commits),
                                ![RefTopic] = Some(topic)]
    /\ refs_before = refs
    /\ worktrees = <<Some(RefMain)>>
    /\ reauthor = FALSE
    /\ todos_original = build_todos(refs, worktrees, commits, index)
    /\ todos = <<>>
    /\ response = <<>>
    /\ edits = 0
    /\ todos_edited = <<>>
    /\ current = None
    /\ applied_old_commits = {}
    /\ applied_new_commits = {}
    /\ pos = 0
    /\ pinned = <<>>
    /\ picks = <<>>
    /\ commit_names = {}
    /\ head_on_top = FALSE
    /\ msgedit = FALSE
    /\ text = <<>>
    /\ parsed = None
    /\ err = NoError

SpecAutosquashRefs == InitAutosquashRefs /\ [][NextAutosquash]_vars

(***************************************************************************)
(* edit_todos on bytes: the plan is written, the editor returns the bytes  *)
(* as they are or with lines moved or deleted, and the bytes are parsed.   *)
(***************************************************************************)
Oids == <<"oid1", "oid2", "oid3", "oid4", "oid5">>
OidsOf(cs) == {<<<<Oids[k]>>, cs[k]>> : k \in 1..Len(cs)}

\* Messages: a summary, a summary and a body, no final line feed, a blank
\* before the summary, a body line that starts like a block of the editor.
TextMessages ==
    {<<"x", LF>>, <<"x", LF, LF, "y", LF>>, <<"x">>, <<SP, "x", LF>>,
     <<"x", LF, MARK, SP, "y", LF>>}

RECURSIVE HistoryWith(_, _)
HistoryWith(parents, messages) ==
    IF messages = <<>> THEN <<>>
    ELSE LET c == [tree |-> EmptyTree, parents |-> parents,
                   message |-> Head(messages), author |-> OtherAuthor]
         IN  <<c>> \o HistoryWith(<<c>>, Tail(messages))

\* What the two families of initial states share: main is checked out at
\* the tip, topic points at some commit or is not there.
InitBytes ==
    /\ pc = "write"
    /\ base = Some(BaseCommit)
    /\ index = None
    /\ \E topic \in {None} \cup {Some(c) : c \in Range(commits)} :
          refs = [NoRefs EXCEPT ![RefMain] = Tip(base, commits),
                                ![RefTopic] = topic]
    /\ refs_before = refs
    /\ worktrees = <<Some(RefMain)>>
    /\ reauthor = FALSE
    /\ todos_original = build_todos(refs, worktrees, commits, index)
    /\ todos = todos_original
    /\ response = <<>>
    /\ edits = 0
    /\ todos_edited = <<>>
    /\ current = None
    /\ applied_old_commits = {}
    /\ applied_new_commits = {}
    /\ pos = 0
    /\ pinned = <<>>
    /\ picks = <<>>
    /\ commit_names = OidsOf(commits)
    /\ head_on_top \in BOOLEAN
    /\ msgedit \in BOOLEAN
    /\ text = <<>>
    /\ parsed = None
    /\ err = NoError

InitRoundTrip ==
    /\ base = Some(BaseCommit)
    /\ \E n \in 1..MaxCommits :
          \E messages \in [1..n -> TextMessages] :
              commits = HistoryWith(base, messages)
    /\ InitBytes

InitEditBytes ==
    /\ base = Some(BaseCommit)
    /\ \E n \in 1..MaxCommits :
          commits = History(base, [k \in 1..n |-> EmptyTree], 1)
    /\ InitBytes

WriteTodos ==
    /\ pc = "write"
    /\ text' = todos_text(commit_names, todos, msgedit, head_on_top)
    /\ pc' = "text_editor"
    /\ UNCHANGED <<picks, commit_names, head_on_top, msgedit, parsed, base,
                   commits, index, refs, refs_before, worktrees, reauthor,
                   todos_original, todos, response, edits, todos_edited,
                   current, applied_old_commits, applied_new_commits, pos,
                   pinned, err>>

joinlines(lines) == Concat([k \in 1..Len(lines) |-> lines[k] \o <<LF>>])

UserEditBytes(lines) ==
    /\ pc = "text_editor"
    /\ edits < MaxEdits
    /\ text' = joinlines(lines)
    /\ edits' = edits + 1
    /\ UNCHANGED <<picks, commit_names, head_on_top, msgedit, parsed, pc, base,
                   commits, index, refs, refs_before, worktrees, reauthor,
                   todos_original, todos, response, todos_edited, current,
                   applied_old_commits, applied_new_commits, pos, pinned, err>>

UserSwapLines ==
    \E k \in 1..(Len(splitlines(text)) - 1) :
        UserEditBytes([splitlines(text) EXCEPT
                          ![k] = splitlines(text)[k + 1],
                          ![k + 1] = splitlines(text)[k]])

UserDeleteLine ==
    \E k \in 1..Len(splitlines(text)) :
        UserEditBytes(SubSeq(splitlines(text), 1, k - 1)
                      \o SubSeq(splitlines(text), k + 1,
                                Len(splitlines(text))))

EditTodosBytes ==
    /\ pc = "text_editor"
    /\ LET r == edit_todos_bytes(todos, commit_names, msgedit, head_on_top, text)
       IN  /\ err' = r.err
           /\ todos_edited' = r.result
    /\ pc' = "edited"
    /\ UNCHANGED <<picks, commit_names, head_on_top, msgedit, text, parsed,
                   base, commits, index, refs, refs_before, worktrees,
                   reauthor, todos_original, todos, response, edits, current,
                   applied_old_commits, applied_new_commits, pos, pinned>>

NextRoundTrip == WriteTodos \/ EditTodosBytes

SpecRoundTrip == InitRoundTrip /\ [][NextRoundTrip]_vars

NextEditBytes ==
    \/ WriteTodos
    \/ UserSwapLines
    \/ UserDeleteLine
    \/ EditTodosBytes

SpecEditBytes == InitEditBytes /\ [][NextEditBytes]_vars

(***************************************************************************)
(* parse_action and parse_step on their own: one text, parsed once.        *)
(***************************************************************************)
MaxText == 2       \* longest text of arbitrary letters given to parse_action

Letters ==
    {"p", "i", "c", "k", "f", "x", "u", "s", "q", "a", "r", "e", "w", "o",
     "d", "t", "n", "-", "#"}

RECURSIVE TextsUpTo(_)
TextsUpTo(n) ==
    IF n = 0 THEN {<<>>}
    ELSE TextsUpTo(n - 1)
         \cup {Append(t, l) : t \in {u \in TextsUpTo(n - 1) : Len(u) = n - 1},
                              l \in Letters}

ActionPrefixes ==
    UNION {{SubSeq(ActionName(AllActions[k]), 1, n) :
               n \in 0..Len(ActionName(AllActions[k]))} :
           k \in 1..Len(AllActions)}

\* Every prefix of an action name, every name with one more letter, and
\* every text of at most MaxText letters.
ActionTexts ==
    ActionPrefixes
    \cup {Append(ActionName(AllActions[k]), l) :
             k \in 1..Len(AllActions), l \in Letters}
    \cup TextsUpTo(MaxText)

\* The variables of the cycle, which parsing one text leaves alone.
InitNoCycle ==
    /\ base = None
    /\ index = None
    /\ refs = NoRefs
    /\ refs_before = refs
    /\ worktrees = <<>>
    /\ reauthor = FALSE
    /\ todos_original = <<>>
    /\ todos = <<>>
    /\ response = <<>>
    /\ edits = 0
    /\ todos_edited = <<>>
    /\ current = None
    /\ applied_old_commits = {}
    /\ applied_new_commits = {}
    /\ pos = 0
    /\ pinned = <<>>
    /\ picks = <<>>
    /\ head_on_top = FALSE
    /\ msgedit = FALSE
    /\ parsed = None
    /\ err = NoError

InitParseAction ==
    /\ pc = "parse"
    /\ commits = <<>>
    /\ commit_names = {}
    /\ text \in ActionTexts
    /\ InitNoCycle

ParseAction ==
    /\ pc = "parse"
    /\ parsed' = parse_action(text)
    /\ err' = IF parse_action(text) = None THEN ErrUnrecognized ELSE NoError
    /\ pc' = "parsed"
    /\ UNCHANGED <<picks, commit_names, head_on_top, msgedit, text, base,
                   commits, index, refs, refs_before, worktrees, reauthor,
                   todos_original, todos, response, edits, todos_edited,
                   current, applied_old_commits, applied_new_commits, pos,
                   pinned>>

SpecParseAction == InitParseAction /\ [][ParseAction]_vars

\* The lines given to parse_step: an action word, blanks, an operand that
\* names the commit or nothing, and no summary, an empty summary or a
\* summary after one or two blanks.
ActionWords == (ActionPrefixes \ {<<>>}) \cup {<<"x">>}
Operands == {<<Oids[1]>>, <<Oids[2]>>}
SummarySuffixes ==
    {<<>>, <<SP>>, <<SP, "z">>, <<SP, SP, "z", SP, "w">>, <<SP, "z", SP>>}
LineOf(w, o, sfx) == w \o <<SP>> \o o \o sfx

InitParseStep ==
    /\ pc = "parse"
    /\ \E m \in TextMessages : commits = HistoryWith(<<BaseCommit>>, <<m>>)
    /\ commit_names = OidsOf(commits)
    /\ \E w \in ActionWords, o \in Operands, sfx \in SummarySuffixes :
          text = LineOf(w, o, sfx)
    /\ InitNoCycle

ParseStep ==
    /\ pc = "parse"
    /\ parsed' = parse_step(commit_names, text).step
    /\ err' = parse_step(commit_names, text).err
    /\ pc' = "parsed"
    /\ UNCHANGED <<picks, commit_names, head_on_top, msgedit, text, base,
                   commits, index, refs, refs_before, worktrees, reauthor,
                   todos_original, todos, response, edits, todos_edited,
                   current, applied_old_commits, applied_new_commits, pos,
                   pinned>>

SpecParseStep == InitParseStep /\ [][ParseStep]_vars

(***************************************************************************)
(* The cycle: build_todos, the user's edit, edit_todos, apply_todos.       *)
(***************************************************************************)
BuildTodos ==
    /\ pc = "build"
    /\ todos_original' = build_todos(refs, worktrees, commits, index)
    /\ todos' = todos_original'
    /\ response' = serialized_todos(todos')
    /\ pc' = "editor"
    /\ UNCHANGED <<picks, commit_names, head_on_top, msgedit, text, parsed,
                   base, commits, index, refs, refs_before, worktrees, reauthor,
                   edits, todos_edited, current, applied_old_commits,
                   applied_new_commits, pos, pinned, err>>

\* The user's edit operations on the buffer.
UserEdit(lines) ==
    /\ pc = "editor"
    /\ edits < MaxEdits
    /\ response' = lines
    /\ edits' = edits + 1
    /\ UNCHANGED <<picks, commit_names, head_on_top, msgedit, text, parsed,
                   pc, base, commits, index, refs, refs_before, worktrees,
                   reauthor, todos_original, todos, todos_edited, current,
                   applied_old_commits, applied_new_commits, pos, pinned, err>>

UserSwap ==
    \E k \in 1..(Len(response) - 1) :
        UserEdit([response EXCEPT ![k] = response[k + 1],
                                  ![k + 1] = response[k]])

UserDelete ==
    \E k \in 1..Len(response) :
        UserEdit(SubSeq(response, 1, k - 1)
                 \o SubSeq(response, k + 1, Len(response)))

UserSetAction ==
    \E k \in 1..Len(response) :
        \E a \in IF IsCommitStep(response[k]) THEN Range(CommitAction)
                  ELSE Range(CommitlessAction) :
            /\ a # response[k].action
            /\ UserEdit([response EXCEPT ![k].action = a])

UserSetMessage ==
    \E k \in 1..Len(response) :
        /\ IsCommitStep(response[k])
        /\ response[k].message # RewordedMessage
        /\ UserEdit([response EXCEPT ![k].message = RewordedMessage])

\* The editor returns: the rest of edit_todos, and the call of apply_todos
\* when the edited plan is accepted.
EditTodos ==
    /\ pc = "editor"
    /\ LET r == edit_todos(todos, response)
       IN  /\ err' = r.err
           /\ todos_edited' = r.result
           /\ pc' = IF r.err = NoError THEN "apply" ELSE "failed"
    /\ edits' = 0
    /\ current' = base
    /\ UNCHANGED <<picks, commit_names, head_on_top, msgedit, text, parsed,
                   base, commits, index, refs, refs_before, worktrees,
                   reauthor, todos_original, todos, response, applied_old_commits,
                   applied_new_commits, pos, pinned>>

Fail(e) ==
    /\ pc' = "failed"
    /\ err' = e
    /\ UNCHANGED <<current, refs>>

\* Variant of the tail of an iteration that reauthors whatever the flag says.
Continue_always_reauthor(step, commit) ==
    LET c == update(commit, commit.tree, commit.parents, commit.message,
                    DefaultAuthor)
    IN  /\ current' = Some(c)
        /\ refs' = update_heads(refs, significant_extrasteps(step), c)
        /\ UNCHANGED <<pc, err>>

\* The tail of an iteration: reauthoring, the extra steps of the step.
Continue(step, commit) ==
    LET c == IF reauthor
             THEN update(commit, commit.tree, commit.parents, commit.message,
                         DefaultAuthor)
             ELSE commit
    IN  /\ current' = Some(c)
        /\ refs' = update_heads(refs, significant_extrasteps(step), c)
        /\ UNCHANGED <<pc, err>>

\* Variant of the index step that still runs the extra steps of the step.
Break_after_extrasteps(step) ==
    /\ pc' = "break"
    /\ refs' = IF current = None THEN refs
               ELSE update_heads(refs, significant_extrasteps(step), current[1])
    /\ UNCHANGED <<current, err>>

\* The index step: break, before reauthoring and the extra steps.
Break(step) ==
    /\ pc' = "break"
    /\ UNCHANGED <<current, refs, err>>

ApplyStep ==
    /\ pc = "apply"
    /\ pos < zip_length
    /\ LET known_state == todos_original[pos + 1]
           step == todos_edited[pos + 1]
           old_set == applied_old_commits \cup {known_state.commit}
           new_set == applied_new_commits \cup {step.commit}
           keep == tree_to_keep(known_state, step, deja_vu(old_set, new_set))
       IN  /\ applied_old_commits' = old_set
           /\ applied_new_commits' = new_set
           /\ pos' = pos + 1
           /\ pinned' = Append(pinned, keep)
           /\ \/ /\ rebase_may_fail(step.commit, current, keep)
                  /\ Fail(ErrConflict)
              \/ \E moved \in rebase(step.commit, current, keep) :
                    LET rebased == with_message(moved, step)
                    IN  \/ /\ step.action = aPICK
                           /\ Continue(step, rebased)
                        \/ /\ step.action = aFIXUP
                           /\ IF current = None THEN Fail(ErrFixupFirst)
                              ELSE Continue(step, fixup(current[1], rebased))
                        \/ /\ step.action = aREWORD
                           /\ \/ Fail(ErrEditor)
                              \/ \E c \in edit_commit_message(rebased) :
                                    Continue(step, c)
                        \/ /\ step.action = aSQUASH
                           /\ IF current = None THEN Fail(ErrSquashFirst)
                              ELSE LET melded == squash(current[1], rebased)
                                   IN  \/ Fail(ErrEditor)
                                       \/ \E c \in edit_commit_message(melded) :
                                             Continue(step, c)
                        \/ /\ step.action = aCUT
                           /\ \/ Fail(ErrCut)
                              \/ \E c \in cut_commit(rebased) : Continue(step, c)
                        \/ /\ step.action = aINDEX
                           /\ Break(step)
    /\ UNCHANGED <<picks, commit_names, head_on_top, msgedit, text, parsed,
                   base, commits, index, refs_before, worktrees, reauthor,
                   todos_original, todos, response, edits, todos_edited>>

\* Variant of the end of apply_todos that returns current whatever it is.
Return_unchecked ==
    /\ \/ pc = "apply" /\ pos = zip_length
       \/ pc = "break"
    /\ pc' = "done"
    /\ UNCHANGED <<picks, commit_names, head_on_top, msgedit, text, parsed,
                   base, commits, index, refs, refs_before, worktrees, reauthor,
                   todos_original, todos, response, edits, todos_edited,
                   current, applied_old_commits, applied_new_commits, pos,
                   pinned, err>>

\* After the loop: the error for an empty history, or the return of current.
Return ==
    /\ \/ pc = "apply" /\ pos = zip_length
       \/ pc = "break"
    /\ IF current = None
       THEN pc' = "failed" /\ err' = ErrNoCommits
       ELSE pc' = "done" /\ err' = err
    /\ UNCHANGED <<picks, commit_names, head_on_top, msgedit, text, parsed,
                   base, commits, index, refs, refs_before, worktrees, reauthor,
                   todos_original, todos, response, edits, todos_edited,
                   current, applied_old_commits, applied_new_commits, pos,
                   pinned>>

Next ==
    \/ BuildTodos
    \/ UserSwap
    \/ UserDelete
    \/ UserSetAction
    \/ UserSetMessage
    \/ EditTodos
    \/ ApplyStep
    \/ Return

(***************************************************************************)
(* The states the cycle starts from, in three families.  In the first the  *)
(* trees of the range vary; in the second the range may start at a root    *)
(* commit, staged changes may be there and the reauthor flag may be set;   *)
(* in the third the refs that point into the range and the branches that   *)
(* are checked out vary.                                                   *)
(***************************************************************************)
Tree(c1, c2) == [p \in Paths |-> IF p = "file1" THEN c1 ELSE c2]
CycleTrees == {Tree(0, 0), Tree(1, 0), Tree(2, 0), Tree(0, 1)}
SmallTrees == {Tree(1, 0), Tree(1, 1)}
\* The tree of the k-th commit of a range in which every commit changes a file.
StepTree(k) == Tree((k + 1) \div 2, k \div 2)

Toggle(tree) == [tree EXCEPT !["file2"] = 1 - tree["file2"]]

InitTrees ==
    /\ base = Some(BaseCommit)
    /\ \E n \in 1..MaxCommits :
          \E trees \in [1..n -> CycleTrees] : commits = History(base, trees, 1)
    /\ index = None
    /\ refs = NoRefs
    /\ worktrees = <<None>>
    /\ reauthor = FALSE

InitFlags ==
    /\ base \in {None, Some(BaseCommit)}
    /\ \E n \in 1..MaxCommits :
          \E trees \in [1..n -> SmallTrees] : commits = History(base, trees, 1)
    /\ index \in {None,
                   Some(IndexCommit(base, commits,
                                    Toggle(commits[Len(commits)].tree)))}
    /\ refs = NoRefs
    /\ worktrees = <<None>>
    /\ reauthor \in BOOLEAN

InitRefs ==
    /\ base = Some(BaseCommit)
    /\ \E n \in 1..MaxCommits :
          commits = History(base, [k \in 1..n |-> StepTree(k)], 1)
    /\ index = None
    /\ \E topic \in Range(commits), tag \in {None} \cup {Some(c) : c \in Range(commits)} :
          refs = [NoRefs EXCEPT ![RefMain] = Tip(base, commits),
                                ![RefTopic] = Some(topic),
                                ![RefTag] = tag]
    /\ worktrees \in {<<Some(RefMain)>>, <<Some(RefMain), Some(RefTopic)>>}
    /\ reauthor = FALSE

Init ==
    /\ pc = "build"
    /\ InitTrees \/ InitFlags \/ InitRefs
    /\ refs_before = refs
    /\ todos_original = <<>>
    /\ todos = <<>>
    /\ response = <<>>
    /\ edits = 0
    /\ todos_edited = <<>>
    /\ current = None
    /\ applied_old_commits = {}
    /\ applied_new_commits = {}
    /\ pos = 0
    /\ pinned = <<>>
    /\ picks = <<>>
    /\ commit_names = {}
    /\ head_on_top = FALSE
    /\ msgedit = FALSE
    /\ text = <<>>
    /\ parsed = None
    /\ err = NoError

Spec == Init /\ [][Next]_vars

\* The cycle when apply_todos, once called, is not held up: the steps of
\* its loop and its return are taken when they can be; the user may edit
\* for ever.
SpecFair == Spec /\ WF_vars(ApplyStep) /\ WF_vars(Return)

(***************************************************************************)
(* build_todos on its own: refs anywhere in the range, HEAD of the main    *)
(* worktree on main or detached, topic checked out elsewhere or not.       *)
(***************************************************************************)
InitBuild ==
    /\ pc = "build"
    /\ base = Some(BaseCommit)
    /\ \E n \in 1..MaxCommits :
          commits = History(base, [k \in 1..n |-> StepTree(k)], 1)
    /\ index \in {None, Some(IndexCommit(base, commits, Tree(2, 1)))}
    /\ \E at \in [RefNames -> {None} \cup {Some(c) : c \in Range(commits)}] :
          refs = at
    /\ refs_before = refs
    /\ worktrees \in {<<None>>, <<Some(RefMain)>>, <<None, Some(RefTopic)>>,
                      <<Some(RefMain), Some(RefTopic)>>}
    /\ commit_names = {}
    /\ text = <<>>
    /\ reauthor = FALSE
    /\ todos_original = <<>>
    /\ todos = <<>>
    /\ response = <<>>
    /\ edits = 0
    /\ todos_edited = <<>>
    /\ current = None
    /\ applied_old_commits = {}
    /\ applied_new_commits = {}
    /\ pos = 0
    /\ pinned = <<>>
    /\ picks = <<>>
    /\ head_on_top = FALSE
    /\ msgedit = FALSE
    /\ parsed = None
    /\ err = NoError

SpecBuild == InitBuild /\ [][BuildTodos]_vars

\* The cycle when the user leaves the buffer as it is.
NextUnedited ==
    \/ BuildTodos
    \/ EditTodos
    \/ ApplyStep
    \/ Return

SpecUnedited == Init /\ [][NextUnedited]_vars

(***************************************************************************)
(* Claims about validate_todos.                                            *)
(***************************************************************************)
Validated == pc = "validated"
Accepted == Validated /\ err = NoError

HasDuplicate(new) ==
    \E j, k \in 1..Len(new) : j < k /\ new[j].commit = new[k].commit
HasForeign(old, new) ==
    \E k \in 1..Len(new) : \A j \in 1..Len(old) : new[k].commit # old[j].commit
WellFormed(old, new) == ~HasDuplicate(new) /\ ~HasForeign(old, new)

\* Positions of the original plan whose commit the edited plan leaves out.
DroppedPos == {k \in 1..Len(todos) : \A j \in 1..Len(todos_edited) :
                  todos_edited[j].commit # todos[k].commit}
IsRun(S) == S # {} /\ \A k \in Min(S)..Max(S) : k \in S
SingleParents == \A k \in 1..Len(todos) : Len(todos[k].commit.parents) = 1
\* The commits at positions lo..hi of the original plan cancel out.
NetNoop(lo, hi) ==
    /\ Len(todos[lo].commit.parents) = 1
    /\ todos[hi].commit.tree = todos[lo].commit.parents[1].tree
\* The maximal runs of dropped positions, as pairs <<first, last>>.
DroppedRuns ==
    {r \in DroppedPos \X DroppedPos :
        /\ r[1] <= r[2]
        /\ \A k \in r[1]..r[2] : k \in DroppedPos
        /\ (r[1] - 1) \notin DroppedPos
        /\ (r[2] + 1) \notin DroppedPos}

\* C2: validate_todos raises an error whenever the edited plan holds one
\* commit in two steps, and whenever it holds a commit that no step of the
\* original plan holds; so the commits of an accepted plan are pairwise
\* distinct and all come from the original plan.
C2_DuplicateAndForeignRejected ==
    Validated =>
        /\ HasDuplicate(todos_edited) => err = ErrDuplicate
        /\ (HasForeign(todos, todos_edited) /\ ~HasDuplicate(todos_edited))
              => err = ErrForeign
        /\ err = NoError => WellFormed(todos, todos_edited)

C2_Witness ==
    /\ Validated
    /\ HasForeign(todos, todos_edited)
    /\ ~HasDuplicate(todos_edited)
    /\ Len(todos_edited) >= 2
    /\ err = ErrForeign

C4_OnlyContiguousBubbles ==
    Accepted => \A r \in DroppedRuns : NetNoop(r[1], r[2])

\* C5: validate_todos rejects every edited plan in which a step that is not
\* an index step comes after an index step; the index steps of an accepted
\* plan are its last steps.
C5_IndexTail ==
    Validated =>
        ((\E j, k \in 1..Len(todos_edited) :
             j < k /\ todos_edited[j].action = aINDEX
                   /\ todos_edited[k].action # aINDEX)
         => err # NoError)

\* A plan that is refused for the place of its index step alone, the step
\* that follows the index step not being the last one.
C5_Witness ==
    /\ Validated /\ err = ErrIndexOrder
    /\ \E j \in 1..Len(todos_edited) :
          /\ todos_edited[j].action = aINDEX
          /\ j + 2 <= Len(todos_edited)
          /\ todos_edited[j + 1].action # aINDEX
          /\ todos_edited[j + 2].action = aINDEX

(***************************************************************************)
(* Claims about apply_todos and the cycle.                                 *)
(***************************************************************************)
Applying == pc \in {"apply", "break", "done"}
IsPickPlan(plan) == \A k \in 1..Len(plan) : plan[k].action \in {aPICK, aINDEX}
Picks(plan) == SelectSeq(plan, LAMBDA st : st.action = aPICK)

\* After a step of a plan that was not edited, the tip has the tree and the
\* message of the commit of that step.
StepReproduced ==
    (pos >= 1 /\ pc = "apply") =>
        /\ current # None
        /\ current[1].tree = todos_original[pos].commit.tree
        /\ current[1].message = todos_original[pos].commit.message

\* The returned tip of a plan that was not edited is the last picked commit.
TipReturned ==
    (pc = "done" /\ Picks(todos_original) # <<>>) =>
        current = Some(Picks(todos_original)[Len(Picks(todos_original))].commit)

\* C1 as claimed: when the edited plan is the original plan, the tip after
\* every step has the tree and message of the original commit of the step,
\* and the returned tip of a range with a pick step is the original tip.
C1_NoOpAnyFlag ==
    (Applying /\ todos_edited = todos_original) =>
        (StepReproduced /\ TipReturned)

\* C1 as amended: the same, the returned tip being the original tip when the
\* reauthor flag is off.
C1_NoOp ==
    (Applying /\ todos_edited = todos_original) =>
        (StepReproduced /\ (~reauthor => TipReturned))

C1_Witness ==
    /\ pc = "done" /\ ~reauthor
    /\ todos_edited = todos_original
    /\ Len(Picks(todos_original)) >= 2
    /\ current = Some(commits[Len(commits)])

FirstCommits(plan, n) == {plan[k].commit : k \in 1..n}
KnownState ==
    /\ pos >= 1
    /\ FirstCommits(todos_edited, pos) = FirstCommits(todos_original, pos)
    /\ todos_edited[pos].action \in {aPICK, aFIXUP, aSQUASH, aREWORD}

\* C6: after a pick, fixup, squash or reword step before which, the step
\* included, the edited plan has used the commits the original plan has used,
\* the tree of the tip is the tree of the original commit at the step; so the
\* tip returned for a reordered plan has the tree of the last original commit.
C6_ReorderKeepsKnownState ==
    (pc \in {"apply", "done"} /\ KnownState) =>
        (current # None /\ current[1].tree = todos_original[pos].commit.tree)

\* The last step of a reordered plan melds a commit that is not the original
\* last one, and the tip has the tree of the original last commit.
C6_Witness ==
    /\ pc = "done" /\ KnownState
    /\ pos = Len(todos_original) /\ pos >= 2
    /\ todos_edited[pos].commit # todos_original[pos].commit
    /\ todos_edited[pos].commit.tree # todos_original[pos].commit.tree
    /\ todos_edited[pos].action = aFIXUP
    /\ current[1].tree = todos_original[pos].commit.tree

\* The edited plan is the original plan with some steps left out.
DropsOnly ==
    /\ IsPickPlan(todos_original)
    /\ todos_edited = SelectSeq(todos_original,
                           LAMBDA st : st.commit \in CommitsOf(todos_edited))
    /\ Len(todos_edited) < Len(todos_original)

\* C7: when the accepted plan is the original plan with commits dropped, every
\* commit that is kept is recreated with the tree it had, and the returned tip
\* has the tree of the original tip.
C7_DropKeepsLaterTrees ==
    (pc \in {"apply", "done"} /\ DropsOnly /\ pos >= 1
       /\ todos_edited[pos].action = aPICK) =>
        (current # None /\ current[1].tree = todos_edited[pos].commit.tree)

\* C8: whatever the user returns from the editor, a branch that is checked
\* out in a worktree points where it pointed when the cycle started.
C8_CheckedOutNeverMoved ==
    \A r \in outchecked(worktrees) : refs[r] = refs_before[r]

\* C9: in every run of apply_todos that ends with an error every branch points
\* where it pointed before the run.
C9_NoRefWrittenBeforeTheEnd ==
    pc = "failed" => refs = refs_before

(***************************************************************************)
(* Claims about autosquash_todos.  The input is todos_original, the output *)
(* is todos.                                                               *)
(***************************************************************************)
Autosquashed == pc = "autosquashed"

\* Position in the input plan of the step of a commit.
PosIn(commit) ==
    CHOOSE k \in 1..Len(todos_original) : todos_original[k].commit = commit
PosOut(commit) == CHOOSE k \in 1..Len(todos) : todos[k].commit = commit

Marked(commit) == strip_markers(summary(commit)) # summary(commit)
MarkedAction(commit) ==
    IF Head(summary(commit)) = FIXUP_MARK THEN aFIXUP ELSE aSQUASH

\* The step at position k of the output is a lead: it has come through as it
\* was in the input.
IsLead(k) == todos[k] = todos_original[PosIn(todos[k].commit)]
LeadOf(k) == Max({j \in 1..k : IsLead(j)})

\* The leads the loop had collected when it came to the commit whose needle
\* is a prefix of their summary, as positions of the output.
LeadsMatching(commit) ==
    {j \in 1..Len(todos) :
        /\ IsLead(j)
        /\ PosIn(todos[j].commit) < PosIn(commit)
        /\ IsPrefix(strip_markers(summary(commit)), summary(todos[j].commit))}

\* The needle of the commit resolves to a commit that the loop had put in a
\* group when it came to the commit.
TargetCollected(commit) ==
    LET target == get_commit(commit_names, strip_markers(summary(commit)))
    IN  /\ target # None
        /\ target[1] \in CommitsOf(todos_original)
        /\ PosIn(target[1]) < PosIn(commit)

Permutation ==
    /\ Len(todos) = Len(todos_original)
    /\ CommitsOf(todos) = CommitsOf(todos_original)

LeadsInOrder ==
    \A j, k \in 1..Len(todos) :
        (IsLead(j) /\ IsLead(k) /\ j < k)
            => PosIn(todos[j].commit) < PosIn(todos[k].commit)

\* A step that is not a lead sits in the group of a lead, has the action of
\* its marker, and comes after the steps that were folded there before it.
FoldedWellPlaced(k) ==
    /\ \E j \in 1..k : IsLead(j)
    /\ Marked(todos[k].commit)
    /\ todos[k].action = MarkedAction(todos[k].commit)
    /\ \A j \in LeadOf(k)..(k - 1) :
          PosIn(todos[j].commit) < PosIn(todos[k].commit)

FoldedBySummary(k) ==
    /\ LeadsMatching(todos[k].commit) # {}
    /\ LeadOf(k) = Min(LeadsMatching(todos[k].commit))

FoldedByTarget(k) ==
    /\ LeadsMatching(todos[k].commit) = {}
    /\ TargetCollected(todos[k].commit)
    /\ LeadOf(k) = LeadOf(PosOut(get_commit(commit_names,
                              strip_markers(summary(todos[k].commit)))[1]))

\* C10 as claimed: the output is a permutation of the input; a step with a
\* marker whose needle is a prefix of the summary of a lead collected before
\* it is folded into the first such group, after the steps folded there
\* before, as a fixup or a squash; every other step is a lead, and the leads
\* come in the order of the input.
C10_AutosquashBySummaryOnly ==
    Autosquashed =>
        /\ Permutation
        /\ LeadsInOrder
        /\ \A k \in 1..Len(todos) :
              IF Marked(todos[k].commit) /\ LeadsMatching(todos[k].commit) # {}
              THEN ~IsLead(k) /\ FoldedWellPlaced(k) /\ FoldedBySummary(k)
              ELSE IsLead(k)

\* C10 as amended: the same, except that a step with a marker whose needle
\* is a prefix of the summary of no lead collected before it, and resolves to
\* a commit of a group collected before it, is folded into that group; every
\* other step, a step whose needle resolves to nothing included, is a lead.
C10_Autosquash ==
    Autosquashed =>
        /\ Permutation
        /\ LeadsInOrder
        /\ \A k \in 1..Len(todos) :
              IF Marked(todos[k].commit) /\ LeadsMatching(todos[k].commit) # {}
              THEN ~IsLead(k) /\ FoldedWellPlaced(k) /\ FoldedBySummary(k)
              ELSE IF Marked(todos[k].commit) /\ TargetCollected(todos[k].commit)
              THEN ~IsLead(k) /\ FoldedWellPlaced(k) /\ FoldedByTarget(k)
              ELSE IsLead(k)

\* A fixup! commit is folded over a commit that stood between it and its
\* lead, and a marked commit whose needle nothing matches is kept as a pick.
C10_Witness ==
    /\ Autosquashed
    /\ Len(todos) = MaxCommits
    /\ \E k \in 2..Len(todos) :
          /\ ~IsLead(k) /\ FoldedBySummary(k)
          /\ todos[k].action = aFIXUP
          /\ PosIn(todos[k].commit) > k
    /\ \E k \in 1..Len(todos) :
          /\ IsLead(k) /\ Marked(todos[k].commit)
          /\ todos[k].action = aPICK
          /\ get_commit(commit_names,
                        strip_markers(summary(todos[k].commit))) = None

(***************************************************************************)
(* Claims about the bytes of the todo list.                                *)
(***************************************************************************)
FileSteps ==
    IF msgedit THEN polymorphic_msgedit(commit_names, text)
    ELSE polymorphic_linewise(commit_names, text)

\* The commit-less lines that follow line j up to the next commit line.
ExtrasAfter(lines, j) ==
    LET stop == Min({k \in (j + 1)..Len(lines) : IsCommitStep(lines[k])}
                    \cup {Len(lines) + 1})
    IN  SubSeq(lines, j + 1, stop - 1)

\* Every commit line of lines has its step in the plan returned, and the
\* extra steps of that step are the commit-less lines that follow it.
AssociatedInOrder(lines) ==
    \A j \in 1..Len(lines) :
        IsCommitStep(lines[j]) =>
            \E k \in 1..Len(todos_edited) :
                /\ todos_edited[k].commit = lines[j].commit
                /\ todos_edited[k].extrasteps = ExtrasAfter(lines, j)

ReassociatedIn(lines) ==
    (pc = "edited" /\ FileSteps.err = NoError /\ lines # <<>>) =>
        /\ ~IsCommitStep(lines[1]) => (err = ErrOrphan /\ todos_edited = <<>>)
        /\ err = NoError => AssociatedInOrder(lines)

\* C11 as stated: for both values of the head-on-top flag every commit-less
\* line is appended to the commit line before it in the order of the file,
\* keeping the order of the file, and a file whose first line is
\* commit-less is rejected.
C11_ReassociatedInFileOrder == ReassociatedIn(FileSteps.steps)

\* C11 amended: the lines are taken in the order of the plan, which is the
\* order of the file when head-on-top is off and the reverse of it when
\* head-on-top is on; every commit-less line is appended to the commit line
\* before it in that order, keeping that order, and a list whose first line
\* in that order is commit-less is rejected with no plan.
C11_ReassociatedInPlanOrder ==
    ReassociatedIn(IF head_on_top THEN Reverse(FileSteps.steps)
                   ELSE FileSteps.steps)

\* With head-on-top on, the user moved or deleted lines and the plan
\* returned has a step with two extra steps that build_todos did not give it.
C11_Witness ==
    /\ pc = "edited"
    /\ head_on_top
    /\ edits > 0
    /\ err = NoError
    /\ \E k \in 1..Len(todos_edited) :
          /\ Len(todos_edited[k].extrasteps) = 2
          /\ \A j \in 1..Len(todos) :
                todos[j].commit = todos_edited[k].commit =>
                    todos[j].extrasteps # todos_edited[k].extrasteps

\* C12: in both modes and for both values of the head-on-top flag, when the
\* editor returns the bytes written for it unchanged, edit_todos raises
\* nothing and returns the plan it was given: same commits, order, actions,
\* messages, and the same extra steps on the same steps in the same order.
C12_RoundTrip ==
    (pc = "edited" /\ edits = 0) => (err = NoError /\ todos_edited = todos)

(***************************************************************************)
(* Claims about parse_step and parse_action.                               *)
(***************************************************************************)
\* The message from the end of its first line on.
BodyOf(message) ==
    LET lfs == {k \in 1..Len(message) : message[k] = LF}
    IN  IF lfs = {} THEN <<>> ELSE SubSeq(message, Min(lfs), Len(message))

IsCommitWord(w) ==
    \E k \in 1..Len(CommitAction) :
        /\ IsPrefix(w, ActionName(CommitAction[k]))

\* C13: parse_step on a commit line with a summary (what follows the blanks
\* after the operand) gives a step whose message is the summary followed by
\* the commit's message from the end of its first line on; on a line without summary the message of the step is
\* the commit's message; the step holds the commit as it was.
C13_SummaryLineEdit ==
    \A w \in ActionWords, sfx \in SummarySuffixes :
        (pc = "parsed" /\ text = LineOf(w, <<Oids[1]>>, sfx)
                       /\ IsCommitWord(w)) =>
            /\ err = NoError
            /\ parsed # None
            /\ parsed[1].commit = commits[1]
            /\ commits[1].message \in TextMessages
            /\ parsed[1].message =
                  IF sfx = <<>> THEN commits[1].message
                  ELSE lstrip(sfx) \o BodyOf(commits[1].message)

\* A line "r oid1  z w" was parsed for a commit whose message has a body.
C13_Witness ==
    /\ pc = "parsed"
    /\ text = LineOf(<<"r">>, <<Oids[1]>>, <<SP, SP, "z", SP, "w">>)
    /\ commits[1].message = <<"x", LF, LF, "y", LF>>
    /\ parsed # None
    /\ parsed[1].action = aREWORD
    /\ parsed[1].message = <<"z", SP, "w", LF, LF, "y", LF>>

\* The first action, in the order of declaration, whose name starts with t.
FirstNamed(t) ==
    LET hits == {k \in 1..Len(AllActions) : IsPrefix(t, ActionName(AllActions[k]))}
    IN  IF hits = {} THEN None
        ELSE Some(AllActions[CHOOSE k \in hits : \A j \in hits : k <= j])

\* C15: parse_action returns the first action in the order pick, fixup,
\* squash, reword, cut, index, comment, update-ref whose name starts with
\* the text, and fails with the unrecognized-action error for a text that
\* is a prefix of no name.
C15_FirstInDeclarationOrder ==
    /\ AllActions = <<aPICK, aFIXUP, aSQUASH, aREWORD, aCUT, aINDEX,
                      aCOMMENT, aUPDATE_REF>>
    /\ pc = "parsed" =>
          /\ parsed = FirstNamed(text)
          /\ (parsed = None) <=> (err = ErrUnrecognized)
          /\ (parsed # None) => err = NoError

\* The empty text and "s" give the first of several candidates, "u" gives
\* a commit-less action: here "s", which squash and no earlier name starts
\* with, gave squash.
C15_Witness ==
    /\ pc = "parsed"
    /\ text = <<"s">>
    /\ parsed = Some(aSQUASH)

\* A text that is a prefix of two names gave the earlier one.
C15_WitnessTie ==
    /\ pc = "parsed"
    /\ text = <<>>
    /\ parsed = Some(aPICK)

(***************************************************************************)
(* Claims about the steps of apply_todos.                                  *)
(***************************************************************************)
\* An iteration of the loop of apply_todos ran to its end.
StepDone == pc = "apply" /\ pc' = "apply" /\ pos' = pos + 1

\* C14: whatever the position of the step in the edited plan, after a pick
\* step the message of current is the message of the edited step, and after
\* a fixup step current has the message it had before the step.
C14_EditedMessageApplied ==
    [][StepDone =>
          LET step == todos_edited[pos + 1]
          IN  /\ step.action = aPICK =>
                    /\ current' # None
                    /\ current'[1].message = step.message
              /\ step.action = aFIXUP =>
                    /\ current # None
                    /\ current' # None
                    /\ current'[1].message = current[1].message]_vars

\* The first step was a pick whose message the user changed, the second a
\* fixup: current has the changed message, which is neither the message of
\* the picked commit nor that of the fixup step.
C14_Witness ==
    /\ pc = "apply"
    /\ pos = 2
    /\ todos_edited[1].action = aPICK
    /\ todos_edited[1].message # todos_edited[1].commit.message
    /\ todos_edited[2].action = aFIXUP
    /\ current # None
    /\ current[1].message = todos_edited[1].message
    /\ current[1].message # todos_edited[2].message

\* The original and the edited plan have used the same commits in their
\* first k steps.
SameCommitsUsed(k) ==
    FirstCommits(todos_edited, k) = FirstCommits(todos_original, k)

\* C16 as stated: once the two sets differ at a step, no later step is
\* rebased with a pinned tree, even when the sets are equal again.
C16_DejaVuNeverReenabled ==
    \A j, k \in 1..Len(pinned) :
        (j < k /\ ~SameCommitsUsed(j)) => pinned[k] = None

\* C16 amended: deja vu is computed anew at every step; the rebase of step k
\* is pinned to the tree of the original commit at k exactly when the two
\* sets are equal after step k is counted, whatever they were before.
C16_DejaVuPerStep ==
    \A k \in 1..Len(pinned) :
        pinned[k] = IF SameCommitsUsed(k)
                    THEN Some(todos_original[k].commit.tree)
                    ELSE None

\* The sets differed at the first step, are equal again at the second, and
\* the second step was rebased with a pinned tree.
C16_Witness ==
    /\ Len(pinned) >= 2
    /\ ~SameCommitsUsed(1)
    /\ SameCommitsUsed(2)
    /\ pinned[1] = None
    /\ pinned[2] = Some(todos_original[2].commit.tree)

(***************************************************************************)
(* Claims about build_todos.                                               *)
(***************************************************************************)
\* The refs that point at commit c, in the order show-ref lists them.
RefsAt(c) == SelectSeq(RefOrder, LAMBDA r : refs[r] = Some(c))

\* The plan has a pick for every commit, in order, then the index step when
\* there is an index commit, and on every step one extra step for every ref
\* at its commit: update-ref for a branch outside out, else a comment.
PlanBuilt(out) ==
    /\ Len(todos_original) = Len(commits) + (IF index = None THEN 0 ELSE 1)
    /\ \A k \in 1..Len(commits) :
          /\ todos_original[k].action = aPICK
          /\ todos_original[k].commit = commits[k]
    /\ index # None =>
          /\ todos_original[Len(todos_original)].action = aINDEX
          /\ todos_original[Len(todos_original)].commit = index[1]
    /\ \A k \in 1..Len(todos_original) :
          LET at == RefsAt(todos_original[k].commit)
              extra == todos_original[k].extrasteps
          IN  /\ Len(extra) = Len(at)
              /\ \A j \in 1..Len(at) :
                    /\ extra[j].operand = at[j]
                    /\ extra[j].action =
                          IF at[j].prefix = HEADS /\ at[j] \notin out
                          THEN aUPDATE_REF ELSE aCOMMENT

\* C17 as stated: a branch gets an update-ref unless it is checked out in a
\* worktree other than the main one.
C17_OutcheckedElsewhere ==
    pc = "editor" =>
        PlanBuilt({worktrees[w][1] :
                      w \in {v \in 2..Len(worktrees) : worktrees[v] # None}})

\* C17 amended: a branch gets an update-ref unless it is checked out in
\* some worktree, the main one included.
C17_OutcheckedAnywhere ==
    pc = "editor" =>
        PlanBuilt({worktrees[w][1] :
                      w \in {v \in 1..Len(worktrees) : worktrees[v] # None}})

\* main is checked out in the main worktree only and is presented as a
\* comment, topic is checked out nowhere and presented as an update-ref on
\* another step, and the index step is there.
C17_Witness ==
    /\ pc = "editor"
    /\ worktrees = <<Some(RefMain)>>
    /\ index # None
    /\ Len(todos_original) = Len(commits) + 1
    /\ \E j, k \in 1..Len(commits) :
          /\ j # k
          /\ CommitlessStep(aCOMMENT, RefMain)
                \in Range(todos_original[j].extrasteps)
          /\ CommitlessStep(aUPDATE_REF, RefTopic)
                \in Range(todos_original[k].extrasteps)

\* An iteration of the loop of apply_todos began and ended, with or without
\* an error.
StepTaken == pc = "apply" /\ pos' = pos + 1

\* The author current has after a fixup or squash step: the one it had, or,
\* when reauthored says so and the reauthor flag is set, the default one.
AuthorAfter(reauthored) ==
    IF reauthored /\ reauthor THEN DefaultAuthor ELSE current[1].author

\* What a fixup or squash step does to current and the refs.
FixupSquashStep(reauthored) ==
    LET step == todos_edited[pos + 1]
        keep == pinned'[pos + 1]
    IN  (StepTaken /\ step.action \in {aFIXUP, aSQUASH}) =>
            /\ current = None =>
                  /\ pc' = "failed"
                  /\ err' = IF step.action = aFIXUP THEN ErrFixupFirst
                            ELSE ErrSquashFirst
                  /\ current' = current
                  /\ refs' = refs
            /\ (current # None /\ pc' = "apply") =>
                  /\ current' # None
                  /\ current'[1].parents = current[1].parents
                  /\ current'[1].author = AuthorAfter(reauthored)
                  /\ \E moved \in rebase(step.commit, current, keep) :
                        current'[1].tree = moved.tree
                  /\ step.action = aFIXUP =>
                        current'[1].message = current[1].message
                  /\ step.action = aSQUASH =>
                        \E c \in edit_commit_message(
                                     [current[1] EXCEPT !.message =
                                         current[1].message \o <<LF, LF>>
                                         \o step.message]) :
                            current'[1].message = c.message

C19_IndexStops ==
    [][/\ (StepTaken /\ todos_edited[pos + 1].action = aINDEX) =>
              /\ current' = current
              /\ refs' = refs
              /\ pc' \in {"break", "failed"}
       /\ pc = "break" =>
              /\ current' = current
              /\ refs' = refs
              /\ pos' = pos
              /\ pc' \in {"done", "failed"}
              /\ pc' = "done" => current' # None]_vars

\* apply_todos returned at an index step that is not the last step of the
\* edited plan and has an update-ref among its extra steps: the ref is not
\* on the commit returned.
C19_Witness ==
    /\ pc = "done"
    /\ pos >= 1
    /\ pos < Len(todos_edited)
    /\ todos_edited[pos].action = aINDEX
    /\ \E k \in 1..Len(todos_edited[pos].extrasteps) :
          /\ todos_edited[pos].extrasteps[k].action = aUPDATE_REF
          /\ refs[todos_edited[pos].extrasteps[k].operand] # current

Ended == pc \in {"done", "failed"}

\* C20: apply_todos ends; it runs a step at most once for every position
\* of the shorter of the two plans, in order; it returns only a current
\* that is not null, and fails with "No commits introduced on top of root
\* commit" when the loop ends with current null.
C20_Terminates ==
    /\ (pc = "apply") ~> Ended
    /\ [][pos' # pos => (pc = "apply" /\ pos' = pos + 1 /\ pos' <= zip_length)]_vars
    /\ [](pc = "done" => current # None)
    /\ [][(pc \in {"apply", "break"} /\ pc' \in {"done", "failed"}
              /\ pos' = pos /\ current = None)
          => (pc' = "failed" /\ err' = ErrNoCommits)]_vars

\* On an empty root the first step of the edited plan was an index step:
\* the loop ended with current null and apply_todos failed.
C20_Witness ==
    /\ pc = "failed"
    /\ err = ErrNoCommits
    /\ base = None
    /\ current = None
    /\ pos = 1
    /\ todos_edited[1].action = aINDEX

(***************************************************************************)
(* Claims about the refs after apply_todos and about the pairing.          *)
(***************************************************************************)
RECURSIVE AncestorsOrSelf(_)
AncestorsOrSelf(c) ==
    {c} \cup UNION {AncestorsOrSelf(c.parents[k]) : k \in 1..Len(c.parents)}

\* The branches an update-ref extra step of a step that ran to its end has
\* repointed.
Repointed ==
    {r \in RefNames :
        \E k \in 1..pos :
            /\ todos_edited[k].action # aINDEX
            /\ CommitlessStep(aUPDATE_REF, r)
                   \in Range(todos_edited[k].extrasteps)}

\* C21: when apply_todos has returned, every branch an update-ref extra
\* step has repointed is on the tip returned or on one of its ancestors.
C21_MovedRefsOnNewHistory ==
    pc = "done" =>
        \A r \in Repointed :
            /\ refs[r] # None
            /\ refs[r][1] \in AncestorsOrSelf(current[1])

\* C22: every step autosquash_todos returns has the extra steps that the
\* step of the same commit had in the plan given, in the same order, also
\* when the step became a fixup or a squash and was moved.
C22_AutosquashKeepsExtrasteps ==
    pc = "autosquashed" =>
        \A k \in 1..Len(todos) :
            \A j \in 1..Len(todos_original) :
                todos_original[j].commit = todos[k].commit =>
                    todos[k].extrasteps = todos_original[j].extrasteps

\* C23: an edited plan that validate_todos accepts has at most as many
\* steps as the original plan, so the pairing of apply_todos, which stops
\* at the shorter plan, reaches every step of the edited plan.
C23_NoEditedStepSkipped ==
    Accepted =>
        /\ Len(todos_edited) <= Len(todos_original)
        /\ zip_length = Len(todos_edited)
        /\ \A k \in 1..Len(todos_edited) : k \in 1..zip_length

\* An accepted edited plan of two steps or more, in another order than the
\* original plan, which has as many steps.
C23_Witness ==
    /\ Accepted
    /\ Len(todos_edited) >= 2
    /\ Len(todos_edited) = Len(todos_original)
    /\ todos_edited[1].commit # todos_original[1].commit

====
